---- MODULE Spec2Model ----
(***************************************************************************)
(* Model of pkg/cache/lru/lru_with_eviction.go (LRUWithEvict) and of the   *)
(* unwinder part of pkg/profiler/cpu/metrics.go.                           *)
(*                                                                         *)
(* The cache is a container/list of elements (evictList, front = most      *)
(* recently used) plus a map from key to list element (items).  Elements   *)
(* are heap objects: an element is an identity (ElemIds) and elems holds   *)
(* the evictable{key, value} stored in its Value field.                    *)
(***************************************************************************)
EXTENDS Integers, Sequences, FiniteSets, TLC

\* ---- bounds of the model ----
MaxCap == 2
MaxInserts == 3
MaxHits == 1
MaxMisses == 1
MaxCloses == 2
MaxClock == 4
MaxStat == 1
MaxCalls == 3
MaxRace == 2

\* ---- inputs ----
Keys == {1, 2, 3}
\* V's zero value is an ordinary value that can also be stored.
Zero == 0
Values == {Zero, 1}
\* identities of list.Element objects: <<k, n>> is the n-th element that can
\* be alive at once among those allocated for key k; nil is no element
Nil == <<>>
ElemIds == Keys \X (1..(MaxCalls + 1))

VARIABLES
    maxEntries,     \* c.maxEntries, zero means no limit
    hasOnEvicted,   \* c.onEvicted != nil
    evictList,      \* c.evictList: sequence of elements, front first
    elems,          \* heap: element -> evictable{key, value}
    items,          \* c.items: key -> element
    hits,           \* c.metrics.hits
    misses,         \* c.metrics.misses
    evictions,      \* c.metrics.evictions
    closerCalls,    \* number of c.closer() invocations
    lastOp,         \* the public operation that completed last
    ret,            \* what it returned
    cbs,            \* the onEvicted(key, value) calls it made, in order
    cbCount,        \* total number of onEvicted calls
    inserts,        \* total number of insertions of an absent key
    clock,          \* reference LRU: number of Add and Get touches so far
    stamp,          \* reference LRU: live key -> time of its last Add or Get
    refValue,       \* reference LRU: live key -> value of its last Add
    ch,             \* bpfMetricsCollector: metrics sent by the last Collect
    logged,         \* bpfMetricsCollector: error log lines of the last Collect
    readFailed,     \* whether readCounters failed in the last Collect
    serialized,     \* callers wrap every public method in one mutex
    pc,             \* goroutine -> the line it executes next, or "idle"
    frame,          \* goroutine -> arguments and locals of its current call
    calls           \* number of public method calls started

vars == <<maxEntries, hasOnEvicted, evictList, elems, items, hits, misses,
          evictions, closerCalls, lastOp, ret, cbs, cbCount, inserts,
          clock, stamp, refValue, ch, logged, readFailed,
          serialized, pc, frame, calls>>

cacheVars == <<maxEntries, hasOnEvicted, evictList, elems, items, hits, misses,
               evictions, closerCalls, lastOp, ret, cbs, cbCount, inserts>>

collectVars == <<ch, logged, readFailed>>

stepVars == <<serialized, pc, frame, calls>>

\* the goroutines that call the cache
Procs == {1, 2}

\* the frame of a goroutine that is in no call; n0, absent0, nEv and cbs
\* record the live count and the key's absence at the start of the call, and
\* the removeElement runs and the onEvicted calls made by it
IdleFrame ==
    [op |-> "none", key |-> 0 - 1, value |-> 0 - 1, e |-> Nil, order |-> <<>>,
     i |-> 1, kv |-> <<>>, err |-> "nil", n0 |-> 0, absent0 |-> FALSE,
     nEv |-> 0, live0 |-> {}, cbs |-> <<>>]

stampVars == <<clock, stamp>>

refVars == <<clock, stamp, refValue>>

\* ---- container/list ----
Range(s) == {s[i] : i \in 1..Len(s)}

ListRemove(l, e) == SelectSeq(l, LAMBDA x : x # e)

PushFront(l, e) == <<e>> \o l

\* a MoveToFront that leaves the list as it is
MoveToFront_Noop(l, e) == l

MoveToFront(l, e) ==
    IF e \notin Range(l) \/ l[1] = e THEN l ELSE <<e>> \o ListRemove(l, e)

Back(l) == IF Len(l) = 0 THEN Nil ELSE l[Len(l)]

\* ---- map helpers ----
MapPut(m, k, x) == [j \in DOMAIN m \cup {k} |-> IF j = k THEN x ELSE m[j]]

MapDelete(m, k) == [j \in DOMAIN m \ {k} |-> m[j]]

\* ---- the cache as a value, for composing the unexported helpers ----
Cache ==
    [evictList |-> evictList, elems |-> elems, items |-> items,
     evictions |-> evictions, cbs |-> <<>>]

\* a new list.Element for key: an identity no live reference holds
NewElement(c, key) ==
    CHOOSE e \in ElemIds :
        /\ e[1] = key
        /\ e \notin DOMAIN c.elems
        /\ \A f \in ElemIds :
              (f[1] = key /\ f \notin DOMAIN c.elems) => e[2] <= f[2]

\* an onEvicted hook that is invoked twice per eviction
onEvicted_Twice(c, k, v) ==
    IF hasOnEvicted THEN [c EXCEPT !.cbs = Append(Append(@, <<k, v>>), <<k, v>>)] ELSE c

onEvicted(c, k, v) ==
    IF hasOnEvicted THEN [c EXCEPT !.cbs = Append(@, <<k, v>>)] ELSE c

\* removeElement without the delete(c.items, kv.key)
removeElement_KeepIndex(c, e) ==
    LET kv == c.elems[e]
        c1 == [c EXCEPT !.evictList = ListRemove(@, e)]
        c3 == onEvicted(c1, kv.key, kv.value)
    IN  [c3 EXCEPT !.evictions = @ + 1]

removeElement(c, e) ==
    LET kv == c.elems[e]
        c1 == [c EXCEPT !.evictList = ListRemove(@, e)]
        c2 == [c1 EXCEPT !.items = MapDelete(@, kv.key)]
        c3 == onEvicted(c2, kv.key, kv.value)
    IN  [c3 EXCEPT !.evictions = @ + 1]

\* a removeOldest that takes the front of the list
removeOldest_Front(c) ==
    LET e == IF Len(c.evictList) = 0 THEN Nil ELSE c.evictList[1]
    IN  IF e # Nil THEN removeElement(c, e) ELSE c

removeOldest(c) ==
    LET e == Back(c.evictList)
    IN  IF e # Nil THEN removeElement(c, e) ELSE c

\* elements no longer referenced by the list or the map are garbage
Live(c) == Range(c.evictList) \cup {c.items[k] : k \in DOMAIN c.items}

Commit(c) ==
    /\ evictList' = c.evictList
    /\ elems' = [e \in DOMAIN c.elems \cap Live(c) |-> c.elems[e]]
    /\ items' = c.items
    /\ evictions' = c.evictions
    /\ cbs' = c.cbs
    /\ cbCount' = cbCount + Len(c.cbs)

\* lastOp's key or value when the operation takes none
NoArg == 0 - 1
Op(name, k, v) == [op |-> name, key |-> k, value |-> v]

InitEngine ==
    /\ maxEntries \in 0..MaxCap
    /\ hasOnEvicted \in BOOLEAN
    /\ evictList = <<>>
    /\ elems = [e \in {} |-> Nil]
    /\ items = [k \in {} |-> Nil]
    /\ hits = 0
    /\ misses = 0
    /\ evictions = 0
    /\ closerCalls = 0
    /\ lastOp = Op("New", NoArg, NoArg)
    /\ ret = <<>>
    /\ cbs = <<>>
    /\ cbCount = 0
    /\ inserts = 0
    /\ clock = 0
    /\ stamp = [k \in {} |-> 0]
    /\ refValue = [k \in {} |-> Zero]
    /\ ch = <<>>
    /\ logged = <<>>
    /\ readFailed = FALSE
    /\ pc = [p \in Procs |-> "idle"]
    /\ frame = [p \in Procs |-> IdleFrame]
    /\ calls = 0

Init == InitEngine /\ serialized = TRUE

\* ---- public operations ----
\* Add without the capacity check of lines 65-67
AddResult_NoEvict(c, key, value) ==
    IF key \in DOMAIN c.items
    THEN LET e == c.items[key]
         IN  [c EXCEPT !.evictList = MoveToFront(@, e),
                       !.elems = MapPut(@, e, [key |-> key, value |-> value])]
    ELSE LET e == NewElement(c, key)
             c1 == [c EXCEPT !.evictList = PushFront(@, e),
                             !.elems = MapPut(@, e, [key |-> key, value |-> value])]
         IN  [c1 EXCEPT !.items = MapPut(@, key, e)]

\* Add reporting the overwritten value to onEvicted
AddResult_CallbackOnOverwrite(c, key, value) ==
    IF key \in DOMAIN c.items
    THEN LET e == c.items[key]
             c0 == onEvicted(c, key, c.elems[e].value)
         IN  [c0 EXCEPT !.evictList = MoveToFront(@, e),
                        !.elems = MapPut(@, e, [key |-> key, value |-> value])]
    ELSE LET e == NewElement(c, key)
             c1 == [c EXCEPT !.evictList = PushFront(@, e),
                             !.elems = MapPut(@, e, [key |-> key, value |-> value])]
             c2 == [c1 EXCEPT !.items = MapPut(@, key, e)]
         IN  IF maxEntries # 0 /\ Len(c2.evictList) > maxEntries
             THEN removeOldest(c2)
             ELSE c2

\* Add that keeps the old value when the key is already present
AddResult_StaleValue(c, key, value) ==
    IF key \in DOMAIN c.items
    THEN LET e == c.items[key]
         IN  [c EXCEPT !.evictList = MoveToFront(@, e)]
    ELSE LET e == NewElement(c, key)
             c1 == [c EXCEPT !.evictList = PushFront(@, e),
                             !.elems = MapPut(@, e, [key |-> key, value |-> value])]
             c2 == [c1 EXCEPT !.items = MapPut(@, key, e)]
         IN  IF maxEntries # 0 /\ Len(c2.evictList) > maxEntries
             THEN removeOldest(c2)
             ELSE c2

\* Add whose capacity check forgets that zero means no limit
AddResult_LimitZero(c, key, value) ==
    IF key \in DOMAIN c.items
    THEN LET e == c.items[key]
         IN  [c EXCEPT !.evictList = MoveToFront(@, e),
                       !.elems = MapPut(@, e, [key |-> key, value |-> value])]
    ELSE LET e == NewElement(c, key)
             c1 == [c EXCEPT !.evictList = PushFront(@, e),
                             !.elems = MapPut(@, e, [key |-> key, value |-> value])]
             c2 == [c1 EXCEPT !.items = MapPut(@, key, e)]
         IN  IF Len(c2.evictList) > maxEntries
             THEN removeOldest(c2)
             ELSE c2

AddResult(c, key, value) ==
    IF key \in DOMAIN c.items
    THEN LET e == c.items[key]
         IN  [c EXCEPT !.evictList = MoveToFront(@, e),
                       !.elems = MapPut(@, e, [key |-> key, value |-> value])]
    ELSE LET e == NewElement(c, key)
             c1 == [c EXCEPT !.evictList = PushFront(@, e),
                             !.elems = MapPut(@, e, [key |-> key, value |-> value])]
             c2 == [c1 EXCEPT !.items = MapPut(@, key, e)]
         IN  IF maxEntries # 0 /\ Len(c2.evictList) > maxEntries
             THEN removeOldest(c2)
             ELSE c2

Add(key, value) ==
    /\ key \notin DOMAIN items => inserts < MaxInserts
    /\ Commit(AddResult(Cache, key, value))
    /\ inserts' = IF key \in DOMAIN items THEN inserts ELSE inserts + 1
    /\ lastOp' = Op("Add", key, value)
    /\ ret' = <<>>
    /\ UNCHANGED <<maxEntries, hasOnEvicted, hits, misses, closerCalls>>

GetResult(key) ==
    IF key \in DOMAIN items
    THEN <<elems[items[key]].value, TRUE>>
    ELSE <<Zero, FALSE>>

Get(key) ==
    /\ IF key \in DOMAIN items
       THEN LET e == items[key]
            IN  /\ hits < MaxHits
                /\ evictList' = MoveToFront(evictList, e)
                /\ hits' = hits + 1
                /\ ret' = GetResult(key)
                /\ UNCHANGED misses
       ELSE /\ misses < MaxMisses
            /\ misses' = misses + 1
            /\ ret' = GetResult(key)
            /\ UNCHANGED <<evictList, hits>>
    /\ lastOp' = Op("Get", key, NoArg)
    /\ cbs' = <<>>
    /\ UNCHANGED <<maxEntries, hasOnEvicted, elems, items, evictions,
                   closerCalls, cbCount, inserts>>

\* a Peek that promotes the entry as Get does
Peek_Promoting(key) ==
    /\ IF key \in DOMAIN items
       THEN LET e == items[key]
            IN  /\ ret' = <<elems[e].value, TRUE>>
                /\ evictList' = MoveToFront(evictList, e)
       ELSE ret' = <<Zero, FALSE>> /\ UNCHANGED evictList
    /\ lastOp' = Op("Peek", key, NoArg)
    /\ cbs' = <<>>
    /\ UNCHANGED <<maxEntries, hasOnEvicted, elems, items, hits,
                   misses, evictions, closerCalls, cbCount, inserts>>

PeekResult(key) ==
    IF key \in DOMAIN items
    THEN LET e == items[key] IN <<elems[e].value, TRUE>>
    ELSE <<Zero, FALSE>>

Peek(key) ==
    /\ ret' = PeekResult(key)
    /\ lastOp' = Op("Peek", key, NoArg)
    /\ cbs' = <<>>
    /\ UNCHANGED <<maxEntries, hasOnEvicted, evictList, elems, items, hits,
                   misses, evictions, closerCalls, cbCount, inserts>>

\* a Remove that drops the oldest entry instead of the named one
RemoveResult_Oldest(c, key) ==
    IF key \in DOMAIN c.items THEN removeOldest(c) ELSE c

RemoveResult(c, key) ==
    IF key \in DOMAIN c.items THEN removeElement(c, c.items[key]) ELSE c

Remove(key) ==
    /\ Commit(RemoveResult(Cache, key))
    /\ lastOp' = Op("Remove", key, NoArg)
    /\ ret' = <<>>
    /\ UNCHANGED <<maxEntries, hasOnEvicted, hits, misses, closerCalls, inserts>>

\* the orders in which a range over c.items can visit its keys
RangeOrders(m) ==
    {s \in [1..Cardinality(DOMAIN m) -> DOMAIN m] :
        \A i, j \in DOMAIN s : i # j => s[i] # s[j]}

RECURSIVE PurgeLoop(_, _, _)
PurgeLoop(c, order, i) ==
    IF i > Len(order) THEN c
    ELSE LET k == order[i]
             e == c.items[k]
             c1 == onEvicted(c, k, c.elems[e].value)
             c2 == [c1 EXCEPT !.items = MapDelete(@, k)]
         IN  PurgeLoop(c2, order, i + 1)

\* Purge without the c.evictList.Init()
PurgeResult_KeepList(c, order) == PurgeLoop(c, order, 1)

\* a Purge that also resets the eviction counter
PurgeResult_ResetCounter(c, order) ==
    [PurgeLoop(c, order, 1) EXCEPT !.evictList = <<>>, !.evictions = 0]

PurgeResult(c, order) ==
    [PurgeLoop(c, order, 1) EXCEPT !.evictList = <<>>]

Purge ==
    /\ \E order \in RangeOrders(items) : Commit(PurgeResult(Cache, order))
    /\ lastOp' = Op("Purge", NoArg, NoArg)
    /\ ret' = <<>>
    /\ UNCHANGED <<maxEntries, hasOnEvicted, hits, misses, closerCalls, inserts>>

\* a Close that only calls the closer
Close_NoPurge(err) ==
    /\ closerCalls < MaxCloses
    /\ closerCalls' = closerCalls + 1
    /\ ret' = <<err>>
    /\ cbs' = <<>>
    /\ lastOp' = Op("Close", NoArg, NoArg)
    /\ UNCHANGED <<maxEntries, hasOnEvicted, evictList, elems, items, hits,
                   misses, evictions, cbCount, inserts>>

Close(err) ==
    /\ closerCalls < MaxCloses
    /\ \E order \in RangeOrders(items) : Commit(PurgeResult(Cache, order))
    /\ closerCalls' = closerCalls + 1
    /\ ret' = <<err>>
    /\ lastOp' = Op("Close", NoArg, NoArg)
    /\ UNCHANGED <<maxEntries, hasOnEvicted, hits, misses, inserts>>

Errors == {"nil", "error"}

Next ==
    \/ \E k \in Keys, v \in Values :
          Add(k, v) /\ UNCHANGED <<refVars, collectVars, stepVars>>
    \/ \E k \in Keys : Get(k) /\ UNCHANGED <<refVars, collectVars, stepVars>>
    \/ \E k \in Keys : Peek(k) /\ UNCHANGED <<refVars, collectVars, stepVars>>
    \/ \E k \in Keys : Remove(k) /\ UNCHANGED <<refVars, collectVars, stepVars>>
    \/ Purge /\ UNCHANGED <<refVars, collectVars, stepVars>>
    \/ \E err \in Errors : Close(err) /\ UNCHANGED <<refVars, collectVars, stepVars>>

Spec == Init /\ [][Next]_vars

\* ---- reference LRU: every key stamped with the time of its last touch ----
\* the live key touched longest ago
Oldest(st) == CHOOSE k \in DOMAIN st : \A j \in DOMAIN st : st[k] <= st[j]

RefAdd(k) ==
    /\ clock < MaxClock
    /\ clock' = clock + 1
    /\ LET s1 == MapPut(stamp, k, clock + 1)
       IN  stamp' = IF /\ k \notin DOMAIN stamp
                       /\ maxEntries # 0
                       /\ Cardinality(DOMAIN s1) > maxEntries
                    THEN MapDelete(s1, Oldest(stamp))
                    ELSE s1

RefGet(k) ==
    IF k \in DOMAIN stamp
    THEN /\ clock < MaxClock
         /\ clock' = clock + 1
         /\ stamp' = [stamp EXCEPT ![k] = clock + 1]
    ELSE UNCHANGED stampVars

RefPeek(k) == UNCHANGED stampVars

\* the reference keeps, for the keys it holds, the value of the last Add
RefStore(k, v) ==
    refValue' = [j \in DOMAIN stamp' |-> IF j = k THEN v ELSE refValue[j]]

RefKeep == refValue' = [j \in DOMAIN stamp' |-> refValue[j]]

RefRemove(k) == stamp' = MapDelete(stamp, k) /\ UNCHANGED clock

RefPurge == stamp' = [k \in {} |-> 0] /\ UNCHANGED clock

\* the engine and the reference LRU driven by the same calls (Close acts on
\* the entries through Purge alone and is left out)
NextRef ==
    \/ \E k \in Keys, v \in Values :
          Add(k, v) /\ RefAdd(k) /\ RefStore(k, v) /\ UNCHANGED <<collectVars, stepVars>>
    \/ \E k \in Keys : Get(k) /\ RefGet(k) /\ RefKeep /\ UNCHANGED <<collectVars, stepVars>>
    \/ \E k \in Keys : Peek(k) /\ RefPeek(k) /\ RefKeep /\ UNCHANGED <<collectVars, stepVars>>
    \/ \E k \in Keys : Remove(k) /\ RefRemove(k) /\ RefKeep /\ UNCHANGED <<collectVars, stepVars>>
    \/ Purge /\ RefPurge /\ RefKeep /\ UNCHANGED <<collectVars, stepVars>>

SpecRef == Init /\ [][NextRef]_vars

\* ---- pkg/profiler/cpu/metrics.go: bpfMetricsCollector ----
descBPFMemlock == "parca_agent_bpf_map_memlock"
descBPFMapKeySize == "parca_agent_bpf_map_key_size"
descBPFMapValueSize == "parca_agent_bpf_map_value_size"
descBPFMapMaxEntries == "parca_agent_bpf_map_max_entries"
descNativeUnwinderTotalSamples == "parca_agent_native_unwinder_samples_total"
descNativeUnwinderSuccess == "parca_agent_native_unwinder_success_total"
descNativeUnwinderErrors == "parca_agent_native_unwinder_error_total"

\* prometheus.MustNewConstMetric(desc, valueType, value, label)
Metric(desc, value, label) == [desc |-> desc, value |-> value, label |-> label]

\* the error fields of unwinderStats with the "reason" label each is sent under
ErrorFields ==
    << <<"ErrorTruncated", "truncated">>,
       <<"ErrorUnsupportedExpression", "unsupported_expression">>,
       <<"ErrorFramePointerAction", "frame_pointer_action">>,
       <<"ErrorUnsupportedCfaRegister", "unsupported_cfa_register">>,
       <<"ErrorCatchall", "catchall">>,
       <<"ErrorShouldNeverHappen", "should_never_happen">>,
       <<"ErrorPcNotCovered", "pc_not_covered">>,
       <<"ErrorUnsupportedJit", "unsupported_jit">> >>

StatFields ==
    {"Total", "SuccessDwarf"} \cup {ErrorFields[i][1] : i \in 1..Len(ErrorFields)}

\* unwinderStats{}: every field zero
ZeroStats == [f \in StatFields |-> 0]

\* the snapshots readCounters can deliver: totals up to MaxStat, and at most
\* one error counter at one
StatsInputs ==
    {[f \in StatFields |->
        IF f = "Total" THEN t ELSE IF f = "SuccessDwarf" THEN d
        ELSE IF f = r THEN 1 ELSE 0] :
        t \in 0..MaxStat, d \in 0..MaxStat,
        r \in {"none"} \cup {ErrorFields[i][1] : i \in 1..Len(ErrorFields)}}

\* what c.readCounters() returns: a snapshot, or an error
ReadOutcomes ==
    {[err |-> FALSE, stats |-> s] : s \in StatsInputs}
        \cup {[err |-> TRUE, stats |-> ZeroStats]}

\* what c.getBPFMetrics() returns: one bpfMetrics per BPF map
BPFMetricsInputs ==
    LET m(name, size) ==
            [mapName |-> name, bpfMapKeySize |-> 4, bpfMapValueSize |-> size,
             bpfMaxEntry |-> 1024, bpfMemlock |-> 4096]
    IN  {<<>>, <<m("stack_traces", 8)>>,
         <<m("stack_traces", 8), m("unwind_tables", 16)>>}

\* on a failed read the error is logged and unwinderStats{} is returned
getUnwinderStats(outcome) ==
    IF outcome.err THEN ZeroStats ELSE outcome.stats

getUnwinderStatsLog(outcome) ==
    IF outcome.err THEN <<"readPerCpuCounter failed">> ELSE <<>>

collectUnwinderStatistics(outcome) ==
    LET stats == getUnwinderStats(outcome)
    IN  <<Metric(descNativeUnwinderTotalSamples, stats["Total"], "dwarf"),
          Metric(descNativeUnwinderSuccess, stats["SuccessDwarf"], "dwarf")>>
        \o [i \in 1..Len(ErrorFields) |->
              Metric(descNativeUnwinderErrors, stats[ErrorFields[i][1]],
                     ErrorFields[i][2])]

RECURSIVE CollectBPFMetrics(_)
CollectBPFMetrics(ms) ==
    IF ms = <<>> THEN <<>>
    ELSE LET b == Head(ms)
         IN  <<Metric(descBPFMemlock, b.bpfMemlock, b.mapName),
               Metric(descBPFMapKeySize, b.bpfMapKeySize, b.mapName),
               Metric(descBPFMapValueSize, b.bpfMapValueSize, b.mapName),
               Metric(descBPFMapMaxEntries, b.bpfMaxEntry, b.mapName)>>
             \o CollectBPFMetrics(Tail(ms))

Collect(ms, outcome) ==
    /\ ch' = CollectBPFMetrics(ms) \o collectUnwinderStatistics(outcome)
    /\ logged' = getUnwinderStatsLog(outcome)
    /\ readFailed' = outcome.err
    /\ UNCHANGED <<cacheVars, refVars, stepVars>>

NextCollect ==
    \E ms \in BPFMetricsInputs, outcome \in ReadOutcomes : Collect(ms, outcome)

SpecCollect == Init /\ [][NextCollect]_vars

\* ---- the methods statement by statement, called from several goroutines ----
\* what no statement of the cache writes
quiet == <<maxEntries, hasOnEvicted, cbs, cbCount, inserts, refVars,
           collectVars, serialized>>

\* under the callers' mutex a goroutine runs only while the others are idle
CanRun(p) == serialized => \A q \in Procs \ {p} : pc[q] = "idle"

\* goroutine p moves to line l with locals f, leaving list lst, heap el and
\* map it; elements that nothing refers to any more are garbage
Land(p, l, f, lst, el, it) ==
    LET fr == [frame EXCEPT ![p] = f]
        keep == Range(lst) \cup {it[k] : k \in DOMAIN it}
                    \cup ({fr[q].e : q \in Procs} \ {Nil})
    IN  /\ pc' = [pc EXCEPT ![p] = l]
        /\ frame' = fr
        /\ evictList' = lst
        /\ elems' = [e \in DOMAIN el \cap keep |-> el[e]]
        /\ items' = it

Goto(p, l, f) ==
    /\ Land(p, l, f, evictList, elems, items)
    /\ UNCHANGED <<hits, misses, evictions, closerCalls, lastOp, ret, calls>>

\* the method returns result
Return(p, result, lst, el, it) ==
    /\ Land(p, "idle", IdleFrame, lst, el, it)
    /\ lastOp' = Op(frame[p].op, frame[p].key, frame[p].value)
    /\ ret' = result
    /\ UNCHANGED calls

\* the first line of each public method
Entry ==
    [Add |-> "L56", Get |-> "L72", Peek |-> "L83", Remove |-> "L91",
     Purge |-> "L117", Close |-> "L117"]

LiveEntries == {<<k, elems[items[k]].value>> : k \in DOMAIN items}

\* Purge and Close are called under the mutex only: evictList.Init() leaves
\* the old elements pointing at the list, and what a racing Remove or
\* MoveToFront of such an element does is beyond a list held as a sequence
Call(p, op, k, v) ==
    /\ pc[p] = "idle"
    /\ CanRun(p)
    /\ calls < (IF serialized THEN MaxCalls ELSE MaxRace)
    /\ op \in {"Purge", "Close"} => serialized
    /\ calls' = calls + 1
    /\ Land(p, Entry[op],
            [IdleFrame EXCEPT !.op = op, !.key = k, !.value = v,
                              !.n0 = IF op = "Add" THEN Len(evictList) ELSE 0,
                              !.absent0 = (op = "Add" /\ k \notin DOMAIN items),
                              !.live0 = IF op \in {"Purge", "Close"}
                                        THEN LiveEntries ELSE {}],
            evictList, elems, items)
    /\ UNCHANGED <<hits, misses, evictions, closerCalls, lastOp, ret>>

\* Add, line 56: if e, ok := c.items[key]; ok
L56(p) ==
    LET f == frame[p]
    IN  /\ pc[p] = "L56"
        /\ IF f.key \in DOMAIN items
           THEN Goto(p, "L57", [f EXCEPT !.e = items[f.key]])
           ELSE Goto(p, "L62", f)

\* Add, line 57: c.evictList.MoveToFront(e)
L57(p) ==
    LET f == frame[p]
    IN  /\ pc[p] = "L57"
        /\ Land(p, "L58", f, MoveToFront(evictList, f.e), elems, items)
        /\ UNCHANGED <<hits, misses, evictions, closerCalls, lastOp, ret, calls>>

\* Add, lines 58-59: e.Value = evictable{key, value}; return
L58(p) ==
    LET f == frame[p]
    IN  /\ pc[p] = "L58"
        /\ Return(p, <<>>, evictList,
                  MapPut(elems, f.e, [key |-> f.key, value |-> f.value]), items)
        /\ UNCHANGED <<hits, misses, evictions, closerCalls>>

\* Add, line 62: e := c.evictList.PushFront(evictable{key, value})
L62(p) ==
    LET f == frame[p]
        e == NewElement([elems |-> elems], f.key)
    IN  /\ pc[p] = "L62"
        /\ Land(p, "L63", [f EXCEPT !.e = e], PushFront(evictList, e),
                MapPut(elems, e, [key |-> f.key, value |-> f.value]), items)
        /\ UNCHANGED <<hits, misses, evictions, closerCalls, lastOp, ret, calls>>

\* Add, line 63: c.items[key] = e
L63(p) ==
    LET f == frame[p]
    IN  /\ pc[p] = "L63"
        /\ Land(p, "L65", f, evictList, elems, MapPut(items, f.key, f.e))
        /\ UNCHANGED <<hits, misses, evictions, closerCalls, lastOp, ret, calls>>

\* line 65 as it would be with >= in place of >
L65_AtCapacity(p) ==
    LET f == frame[p]
    IN  /\ pc[p] = "L65"
        /\ IF maxEntries # 0 /\ Len(evictList) >= maxEntries
           THEN Goto(p, "L98", f)
           ELSE /\ Return(p, <<>>, evictList, elems, items)
                /\ UNCHANGED <<hits, misses, evictions, closerCalls>>

\* Add, lines 65-68: if c.maxEntries != 0 && c.evictList.Len() > c.maxEntries
L65(p) ==
    LET f == frame[p]
    IN  /\ pc[p] = "L65"
        /\ IF maxEntries # 0 /\ Len(evictList) > maxEntries
           THEN Goto(p, "L98", f)
           ELSE /\ Return(p, <<>>, evictList, elems, items)
                /\ UNCHANGED <<hits, misses, evictions, closerCalls>>

\* removeOldest, lines 98-101: e := c.evictList.Back(); if e != nil
L98(p) ==
    LET f == frame[p]
        e == Back(evictList)
    IN  /\ pc[p] = "L98"
        /\ IF e # Nil
           THEN Goto(p, "L106", [f EXCEPT !.e = e])
           ELSE /\ Return(p, <<>>, evictList, elems, items)
                /\ UNCHANGED <<hits, misses, evictions, closerCalls>>

\* Remove, lines 91-93: if e, ok := c.items[key]; ok
L91(p) ==
    LET f == frame[p]
    IN  /\ pc[p] = "L91"
        /\ IF f.key \in DOMAIN items
           THEN Goto(p, "L106", [f EXCEPT !.e = items[f.key]])
           ELSE /\ Return(p, <<>>, evictList, elems, items)
                /\ UNCHANGED <<hits, misses, evictions, closerCalls>>

\* removeElement, line 106: c.evictList.Remove(e)
L106(p) ==
    LET f == frame[p]
    IN  /\ pc[p] = "L106"
        /\ Land(p, "L108", f, ListRemove(evictList, f.e), elems, items)
        /\ UNCHANGED <<hits, misses, evictions, closerCalls, lastOp, ret, calls>>

\* lines 107-109 as they would be without the delete
L108_KeepIndex(p) ==
    LET f == frame[p]
        kv == elems[f.e]
    IN  /\ pc[p] = "L108"
        /\ Land(p, IF hasOnEvicted THEN "L110" ELSE "L112",
                [f EXCEPT !.kv = <<kv.key, kv.value>>],
                evictList, elems, items)
        /\ UNCHANGED <<hits, misses, evictions, closerCalls, lastOp, ret, calls>>

\* removeElement, lines 107-109: kv := e.Value; delete(c.items, kv.key);
\* if c.onEvicted != nil
L108(p) ==
    LET f == frame[p]
        kv == elems[f.e]
    IN  /\ pc[p] = "L108"
        /\ Land(p, IF hasOnEvicted THEN "L110" ELSE "L112",
                [f EXCEPT !.kv = <<kv.key, kv.value>>],
                evictList, elems, MapDelete(items, kv.key))
        /\ UNCHANGED <<hits, misses, evictions, closerCalls, lastOp, ret, calls>>

\* removeElement, line 110: c.onEvicted(kv.key, kv.value) runs and returns
L110(p) ==
    LET f == frame[p]
    IN  /\ pc[p] = "L110"
        /\ Goto(p, "L112", [f EXCEPT !.cbs = Append(@, f.kv)])

\* removeElement, line 112: c.metrics.evictions.Inc()
L112(p) ==
    LET f == frame[p]
    IN  /\ pc[p] = "L112"
        /\ evictions' = evictions + 1
        /\ Land(p, "L113", [f EXCEPT !.nEv = @ + 1], evictList, elems, items)
        /\ UNCHANGED <<hits, misses, closerCalls, lastOp, ret, calls>>

\* removeElement, removeOldest and then Add or Remove return
L113(p) ==
    /\ pc[p] = "L113"
    /\ Return(p, <<>>, evictList, elems, items)
    /\ UNCHANGED <<hits, misses, evictions, closerCalls>>

\* Get, line 72: if e, ok := c.items[key]; ok
L72(p) ==
    LET f == frame[p]
    IN  /\ pc[p] = "L72"
        /\ IF f.key \in DOMAIN items
           THEN Goto(p, "L73", [f EXCEPT !.e = items[f.key]])
           ELSE Goto(p, "L77", f)

\* Get, line 73: c.evictList.MoveToFront(e)
L73(p) ==
    LET f == frame[p]
    IN  /\ pc[p] = "L73"
        /\ Land(p, "L74", f, MoveToFront(evictList, f.e), elems, items)
        /\ UNCHANGED <<hits, misses, evictions, closerCalls, lastOp, ret, calls>>

\* Get, lines 74-75: c.metrics.hits.Inc(); return e.Value.value, true
L74(p) ==
    LET f == frame[p]
    IN  /\ pc[p] = "L74"
        /\ hits' = hits + 1
        /\ Return(p, <<elems[f.e].value, TRUE>>, evictList, elems, items)
        /\ UNCHANGED <<misses, evictions, closerCalls>>

\* Get, lines 77-78: c.metrics.misses.Inc(); return
L77(p) ==
    /\ pc[p] = "L77"
    /\ misses' = misses + 1
    /\ Return(p, <<Zero, FALSE>>, evictList, elems, items)
    /\ UNCHANGED <<hits, evictions, closerCalls>>

\* Peek, lines 83-86
L83(p) ==
    /\ pc[p] = "L83"
    /\ Return(p, PeekResult(frame[p].key), evictList, elems, items)
    /\ UNCHANGED <<hits, misses, evictions, closerCalls>>

\* where the Purge loop goes when its index is i
PurgeLine(order, i) ==
    IF i > Len(order) THEN "L123"
    ELSE IF hasOnEvicted THEN "L119" ELSE "L121"

\* Purge, line 117: for k, e := range c.items, in an order of the runtime's choice
L117(p) ==
    LET f == frame[p]
    IN  /\ pc[p] = "L117"
        /\ \E order \in RangeOrders(items) :
              Goto(p, PurgeLine(order, 1), [f EXCEPT !.order = order, !.i = 1])

\* Purge, line 119: c.onEvicted(k, e.Value.value) runs and returns
L119(p) ==
    LET f == frame[p]
        k == f.order[f.i]
    IN  /\ pc[p] = "L119"
        /\ Goto(p, "L121",
                [f EXCEPT !.cbs = Append(@, <<k, elems[items[k]].value>>)])

\* Purge, line 121: delete(c.items, k), and on to the next key
L121(p) ==
    LET f == frame[p]
        k == f.order[f.i]
    IN  /\ pc[p] = "L121"
        /\ Land(p, PurgeLine(f.order, f.i + 1), [f EXCEPT !.i = @ + 1],
                evictList, elems, MapDelete(items, k))
        /\ UNCHANGED <<hits, misses, evictions, closerCalls, lastOp, ret, calls>>

\* Purge, line 123: c.evictList.Init(); Purge returns, to its caller or to Close
L123(p) ==
    LET f == frame[p]
    IN  /\ pc[p] = "L123"
        /\ IF f.op = "Close"
           THEN /\ Land(p, "L129", f, <<>>, elems, items)
                /\ UNCHANGED <<hits, misses, evictions, closerCalls, lastOp,
                               ret, calls>>
           ELSE /\ Return(p, <<>>, <<>>, elems, items)
                /\ UNCHANGED <<hits, misses, evictions, closerCalls>>

\* Close, lines 129-130: c.closer() runs and hands back nil or an error
L129(p, err) ==
    LET f == frame[p]
    IN  /\ pc[p] = "L129"
        /\ closerCalls' = closerCalls + 1
        /\ Land(p, "L130", [f EXCEPT !.err = err], evictList, elems, items)
        /\ UNCHANGED <<hits, misses, evictions, lastOp, ret, calls>>

\* line 130 as it would be if Close swallowed the closer's error
L130_Swallow(p) ==
    /\ pc[p] = "L130"
    /\ Return(p, <<"nil">>, evictList, elems, items)
    /\ UNCHANGED <<hits, misses, evictions, closerCalls>>

\* Close, line 130: return what the closer returned
L130(p) ==
    /\ pc[p] = "L130"
    /\ Return(p, <<frame[p].err>>, evictList, elems, items)
    /\ UNCHANGED <<hits, misses, evictions, closerCalls>>

Step(p) ==
    \/ L56(p) \/ L57(p) \/ L58(p) \/ L62(p) \/ L63(p) \/ L65(p)
    \/ L98(p) \/ L91(p) \/ L106(p) \/ L108(p) \/ L110(p) \/ L112(p)
    \/ L113(p) \/ L72(p) \/ L73(p) \/ L74(p) \/ L77(p) \/ L83(p)
    \/ L117(p) \/ L119(p) \/ L121(p) \/ L123(p)
    \/ \E err \in Errors : L129(p, err)
    \/ L130(p)

NextConc ==
    \/ \E p \in Procs, k \in Keys, v \in Values :
          Call(p, "Add", k, v) /\ UNCHANGED quiet
    \/ \E p \in Procs, k \in Keys, op \in {"Get", "Peek", "Remove"} :
          Call(p, op, k, 0 - 1) /\ UNCHANGED quiet
    \/ \E p \in Procs, op \in {"Purge", "Close"} :
          Call(p, op, 0 - 1, 0 - 1) /\ UNCHANGED quiet
    \/ \E p \in Procs : CanRun(p) /\ Step(p) /\ UNCHANGED quiet

InitConc == InitEngine /\ serialized \in BOOLEAN

SpecConc == InitConc /\ [][NextConc]_vars

\* ---- vocabulary of the properties ----
\* the keys held by the list nodes, front (most recently used) first
ListKeys == [i \in 1..Len(evictList) |-> elems[evictList[i]].key]

LiveCount == Len(evictList)

Did(name) == lastOp.op = name

\* C1: capacity invariant. With maxEntries = C > 0, after every completed
\* public operation the list holds at most C nodes and the map at most C keys.
C1_Capacity ==
    maxEntries > 0 =>
        /\ Len(evictList) <= maxEntries
        /\ Cardinality(DOMAIN items) <= maxEntries

\* a full bounded cache right after an Add that evicted
C1_Witness ==
    /\ maxEntries > 0
    /\ Did("Add")
    /\ Len(evictList) = maxEntries
    /\ evictions >= 1
    /\ inserts > maxEntries

\* C2: index/order bijection. After every completed public operation the keys
\* of the map are the keys of the list nodes, every key sits in exactly one
\* node, items[k] is the node holding k, and len(items) = evictList.Len().
C2_Bijection ==
    /\ Range(evictList) \subseteq DOMAIN elems
    /\ \A i, j \in 1..Len(evictList) : i # j => evictList[i] # evictList[j]
    /\ {elems[e].key : e \in Range(evictList)} = DOMAIN items
    /\ \A i, j \in 1..Len(evictList) :
          i # j => elems[evictList[i]].key # elems[evictList[j]].key
    /\ \A k \in DOMAIN items :
          items[k] \in Range(evictList) /\ elems[items[k]].key = k
    /\ Cardinality(DOMAIN items) = Len(evictList)

\* two entries remain after an entry was removed and its element reused
C2_Witness ==
    /\ Len(evictList) = 2
    /\ evictions >= 1
    /\ inserts = 3
    /\ Did("Add")

C3_EvictingAdd(k) ==
    /\ DOMAIN items' = (DOMAIN items \cup {k}) \ {Oldest(stamp)}
    /\ Oldest(stamp) # k
    /\ hasOnEvicted => Len(cbs') = 1 /\ cbs'[1][1] = Oldest(stamp)
    /\ ~hasOnEvicted => cbs' = <<>>

\* C3: LRU victim selection. Beside a reference that stamps each key with the
\* time of its last Add or Get (Peek does not stamp), the engine holds the
\* reference's keys in stamp order, and an Add of a new key to a full cache
\* evicts exactly the live key with the oldest stamp.
C3_LRUVictim ==
    /\ [](/\ DOMAIN stamp = DOMAIN items
          /\ \A i, j \in 1..Len(evictList) :
                i < j => stamp[ListKeys[i]] > stamp[ListKeys[j]])
    /\ [][\A k \in Keys, v \in Values :
           (/\ lastOp' = Op("Add", k, v)
            /\ k \notin DOMAIN items
            /\ maxEntries # 0
            /\ Len(evictList) >= maxEntries) => C3_EvictingAdd(k)]_vars

\* capacity 2, keys 1, 2, 3 added in that order and nothing else touched:
\* key 1 was evicted, keys 2 and 3 are present
C3_Witness ==
    /\ maxEntries = 2
    /\ clock = 3
    /\ inserts = 3
    /\ Did("Add")
    /\ lastOp.key = 3
    /\ ListKeys = <<3, 2>>
    /\ DOMAIN items = {2, 3}
    /\ Len(cbs) = 1
    /\ cbs[1][1] = 1

\* the list without element e, order kept
Others(l, e) == SelectSeq(l, LAMBDA x : x # e)

C4_GetStep(k) ==
    IF k \in DOMAIN items
    THEN /\ evictList'[1] = items[k]
         /\ Len(evictList') = Len(evictList)
         /\ Others(evictList', items[k]) = Others(evictList, items[k])
         /\ hits' = hits + 1
         /\ misses' = misses
         /\ ret' = <<elems[items[k]].value, TRUE>>
         /\ UNCHANGED <<elems, items, evictions, cbCount>>
    ELSE /\ misses' = misses + 1
         /\ hits' = hits
         /\ ret' = <<Zero, FALSE>>
         /\ UNCHANGED <<evictList, elems, items, evictions, cbCount>>

\* C4: Get semantics. Get(k) on a live key moves k to the front, keeps the
\* order of the other entries and the set of entries, adds one to hits only
\* and returns (value, true); on an absent key it adds one to misses only,
\* changes neither entries nor order and returns (zero value, false).
C4_GetSemantics ==
    [][\A k \in Keys :
         lastOp' = Op("Get", k, NoArg) => C4_GetStep(k) /\ cbs' = <<>>]_vars

\* capacity 2, keys 1, 2, 3 inserted once each and one hit: the Add of key 3
\* evicted key 2 and kept keys 1 and 3
C4_Witness ==
    /\ maxEntries = 2
    /\ inserts = 3
    /\ hits = 1
    /\ misses = 0
    /\ evictions = 1
    /\ Did("Add")
    /\ lastOp.key = 3
    /\ ListKeys = <<3, 1>>
    /\ Len(cbs) = 1
    /\ cbs[1][1] = 2

\* C5: Peek is non-mutating. Peek(k) leaves order, entries, values and the
\* hit, miss and eviction counters unchanged, invokes no callback and returns
\* what Get(k) returns in that state.
C5_PeekNonMutating ==
    [][\A k \in Keys :
         lastOp' = Op("Peek", k, NoArg) =>
           /\ UNCHANGED <<evictList, elems, items, hits, misses, evictions,
                          cbCount, inserts, closerCalls>>
           /\ cbs' = <<>>
           /\ ret' = GetResult(k)]_vars

\* a Peek that found a key which is not the most recently used one
C5_Witness ==
    /\ Did("Peek")
    /\ Len(ret) = 2
    /\ ret[2] = TRUE
    /\ Len(evictList) >= 2
    /\ ListKeys[1] # lastOp.key

C6_OverwriteStep(k, v) ==
    /\ DOMAIN items' = DOMAIN items
    /\ Len(evictList') = Len(evictList)
    /\ Cardinality({i \in 1..Len(evictList') : ListKeys'[i] = k}) = 1
    /\ evictList'[1] = items'[k]
    /\ elems'[items'[k]] = [key |-> k, value |-> v]
    /\ \A j \in DOMAIN items \ {k} :
          items'[j] = items[j] /\ elems'[items[j]] = elems[items[j]]
    /\ cbs' = <<>>
    /\ cbCount' = cbCount
    /\ evictions' = evictions
    /\ GetResult(k)' = <<v, TRUE>>

\* C6: overwrite is not eviction. Add(k, v2) of a live key stores v2, moves k
\* to the front, keeps one entry for k and every other entry, invokes no
\* callback and leaves the eviction counter; a following Get(k) returns v2.
C6_OverwriteNotEviction ==
    [][\A k \in Keys, v \in Values :
         (lastOp' = Op("Add", k, v) /\ k \in DOMAIN items) =>
           C6_OverwriteStep(k, v)]_vars

\* one insertion, then a hit, then an Add: that Add overwrote the live key
C6_Witness ==
    /\ Did("Add")
    /\ inserts = 1
    /\ hits = 1
    /\ evictions = 0
    /\ Len(evictList) = 1
    /\ hasOnEvicted

\* the elements that leave the cache in a step
Leaving == DOMAIN elems \ DOMAIN elems'

\* the number of onEvicted(k, v) calls the step made
Calls(k, v) == Cardinality({i \in 1..Len(cbs') : cbs'[i] = <<k, v>>})

C7_Step ==
    /\ Len(cbs') = Cardinality(Leaving)
    /\ \A e \in Leaving : Calls(elems[e].key, elems[e].value) = 1
    /\ cbCount' = cbCount + Len(cbs')

\* C7: exactly-once eviction callback. With a non-nil onEvicted every entry
\* that leaves the cache (capacity eviction, Remove, Purge, Close) causes one
\* onEvicted call with its key and latest value, no call is made for an entry
\* that stays, and insertions = callbacks + live entries in every state.
C7_ExactlyOnceCallback ==
    /\ [](hasOnEvicted => inserts = cbCount + LiveCount)
    /\ [][hasOnEvicted => C7_Step]_vars

\* a Purge reporting two entries after an earlier single eviction
C7_Witness ==
    /\ hasOnEvicted
    /\ Did("Purge")
    /\ Len(cbs) = 2
    /\ evictions = 1
    /\ cbCount = 3
    /\ inserts = 3

C8_RemoveStep(k) ==
    IF k \in DOMAIN items
    THEN /\ evictList' = Others(evictList, items[k])
         /\ DOMAIN items' = DOMAIN items \ {k}
         /\ \A j \in DOMAIN items \ {k} :
               items'[j] = items[j] /\ elems'[items[j]] = elems[items[j]]
         /\ cbs' = IF hasOnEvicted
                   THEN <<(<<k, elems[items[k]].value>>)>>
                   ELSE <<>>
         /\ evictions' = evictions + 1
         /\ UNCHANGED <<hits, misses>>
    ELSE /\ UNCHANGED <<evictList, elems, items, hits, misses, evictions,
                        cbCount>>
         /\ cbs' = <<>>

\* C8: Remove semantics. Remove(k) of a live key deletes that entry alone,
\* calls onEvicted(k, value) once and adds one to evictions; Remove(k) of an
\* absent key changes nothing and calls nothing.
C8_RemoveSemantics ==
    [][\A k \in Keys : lastOp' = Op("Remove", k, NoArg) => C8_RemoveStep(k)]_vars

\* a Remove that reported its key and left two other entries
C8_Witness ==
    /\ Did("Remove")
    /\ Len(cbs) = 1
    /\ cbs[1][1] = lastOp.key
    /\ Len(evictList) = 2
    /\ evictions = 1

C9_PurgeStep ==
    /\ Len(evictList') = 0
    /\ DOMAIN items' = {}
    /\ hasOnEvicted =>
          /\ Len(cbs') = Cardinality(DOMAIN items)
          /\ \A k \in DOMAIN items : Calls(k, elems[items[k]].value) = 1
    /\ ~hasOnEvicted => cbs' = <<>>
    /\ hits' >= hits
    /\ misses' >= misses
    /\ evictions' >= evictions
    /\ DOMAIN items = {} =>
          cbs' = <<>> /\ UNCHANGED <<hits, misses, evictions, cbCount>>

\* C9: Purge semantics. After Purge the map and the list are empty, onEvicted
\* was called once for each entry live at the start and for nothing else, no
\* counter went down; Purge of an empty cache calls nothing and changes no
\* counter.
C9_PurgeSemantics ==
    [][lastOp'.op = "Purge" => C9_PurgeStep]_vars

\* a Purge of three entries after a hit and a miss were counted
C9_Witness ==
    /\ Did("Purge")
    /\ Len(cbs) = 3
    /\ hits = 1
    /\ misses = 1
    /\ Len(evictList) = 0

Empty == Len(evictList) = 0 /\ DOMAIN items = {}

\* C10: Close terminality. After Close, with or without an error, the cache is
\* empty; an empty cache stays empty until an Add, and a Close of an empty
\* cache calls onEvicted zero times, so a repeated Close reports nothing twice.
C10_CloseTerminal ==
    [][/\ lastOp'.op = "Close" => Empty'
       /\ (Empty /\ lastOp'.op # "Add") => Empty'
       /\ (Empty /\ lastOp'.op = "Close") =>
             cbs' = <<>> /\ cbCount' = cbCount]_vars

\* a second Close, failing, after the first reported every entry inserted
C10_Witness ==
    /\ Did("Close")
    /\ closerCalls = 2
    /\ ret = <<"error">>
    /\ hasOnEvicted
    /\ inserts = 2
    /\ evictions = 0
    /\ cbCount = 2
    /\ cbs = <<>>
    /\ Empty

\* C11: Close releases at most once. Over any number of Close calls on one
\* cache the closer (the metrics unregistration) is invoked at most once.
C11_ReleaseAtMostOnce == closerCalls <= 1

\* C13: counter monotonicity. No step of any operation, Purge and Close
\* included, lowers the hit, the miss or the eviction counter.
C13_CountersMonotone ==
    [][hits' >= hits /\ misses' >= misses /\ evictions' >= evictions]_vars

\* a Close that dropped entries while all three counters were positive
C13_Witness ==
    /\ Did("Close")
    /\ Len(cbs) >= 1
    /\ hits = 1
    /\ misses = 1
    /\ evictions >= 1

C15_UnboundedAdd(k) ==
    /\ Leaving = {}
    /\ cbs' = <<>>
    /\ cbCount' = cbCount
    /\ evictions' = evictions
    /\ DOMAIN items' = DOMAIN items \cup {k}
    /\ Len(evictList') = Len(evictList) + (IF k \in DOMAIN items THEN 0 ELSE 1)

\* C15: unbounded mode. With maxEntries = 0 no Add evicts an entry or calls
\* onEvicted: an Add of an absent key raises the live count by one and drops
\* nothing, so n Adds of n distinct keys without removals leave n entries.
C15_UnboundedNeverEvicts ==
    [][\A k \in Keys, v \in Values :
         (maxEntries = 0 /\ lastOp' = Op("Add", k, v)) => C15_UnboundedAdd(k)]_vars

\* three distinct keys added to an unbounded cache, all three live
C15_Witness ==
    /\ maxEntries = 0
    /\ Did("Add")
    /\ inserts = 3
    /\ Len(evictList) = 3
    /\ evictions = 0
    /\ cbCount = 0

\* C17: eviction counter accounting. With a non-nil onEvicted the eviction
\* counter equals the number of onEvicted calls, entries dropped by Purge and
\* Close included.
C17_EvictionsCountCallbacks == hasOnEvicted => evictions = cbCount

\* what the reference answers to a lookup of k
RefLookup(k) ==
    IF k \in DOMAIN refValue THEN <<refValue[k], TRUE>> ELSE <<Zero, FALSE>>

IsLive(k) == \E i \in 1..Len(evictList) : ListKeys[i] = k

C20_AddStep(k, v) ==
    /\ IsLive(k)'
    /\ ListKeys'[1] = k
    /\ evictList'[1] = items'[k]
    /\ PeekResult(k)' = <<v, TRUE>>
    /\ \A i \in 1..Len(cbs') : cbs'[i][1] # k

C20_LookupStep(k) ==
    /\ ret' = RefLookup(k)
    /\ ret'[2] = IsLive(k)

\* C20: Add postcondition and lookup correctness. For every maxEntries, right
\* after Add(k, v) the key k is at the front, Peek(k) = (v, true) and k was
\* not evicted by its own Add; Get(k) and Peek(k) find k exactly when k is
\* live and return the value of the most recent Add(k, .).
C20_AddThenLookup ==
    [][/\ \A k \in Keys, v \in Values :
            lastOp' = Op("Add", k, v) => C20_AddStep(k, v)
       /\ \A k \in Keys :
            (lastOp' = Op("Get", k, NoArg) \/ lastOp' = Op("Peek", k, NoArg)) =>
              C20_LookupStep(k)]_vars

\* one insertion, one overwrite, then a Get returning the overwriting value
C20_Witness ==
    /\ Did("Get")
    /\ ret = <<1, TRUE>>
    /\ inserts = 1
    /\ hits = 1
    /\ clock = 3
    /\ lastOp.key \in DOMAIN refValue

NativeUnwinderDescs ==
    {descNativeUnwinderTotalSamples, descNativeUnwinderSuccess,
     descNativeUnwinderErrors}

Sent(descs) == {i \in 1..Len(ch) : ch[i].desc \in descs}

\* C14: statistics resilience. When readCounters fails, Collect returns, logs
\* the error and sends no native-unwinder metric (samples, success, errors by
\* reason) for that cycle, zero-valued ones included.
C14_FailedReadOmitsUnwinder ==
    readFailed => (Len(logged) = 1 /\ Sent(NativeUnwinderDescs) = {})

\* ---- properties of the methods statement by statement ----
Quiescent == \A p \in Procs : pc[p] = "idle"

InCallback(p) == pc[p] \in {"L110", "L119"}

\* C16: size equality at every callback. Whenever onEvicted is running, from
\* Add's eviction, Remove, Purge or Close, with the callers serialized,
\* len(items) = evictList.Len().
C16_CallbackSeesEqualSizes ==
    serialized =>
        \A p \in Procs :
            InCallback(p) => Cardinality(DOMAIN items) = Len(evictList)

\* C18: at most one eviction per Add. With maxEntries = C > 0 and serialized
\* callers, the list never holds more than C + 1 nodes and holds at most C
\* between calls; an Add never shrinks the list below its length at the call,
\* counts at most one eviction and calls onEvicted at most once, and enters
\* removeOldest only if its key was absent and the cache held exactly C.
C18_OneEvictionPerAdd ==
    (serialized /\ maxEntries > 0) =>
        /\ Len(evictList) <= maxEntries + 1
        /\ Quiescent => Len(evictList) <= maxEntries
        /\ \A p \in Procs :
              frame[p].op = "Add" =>
                /\ Len(evictList) \in {frame[p].n0, frame[p].n0 + 1}
                /\ frame[p].nEv <= 1
                /\ Len(frame[p].cbs) <= 1
                /\ pc[p] \in {"L98", "L106", "L108", "L110", "L112", "L113"} =>
                      (frame[p].absent0 /\ frame[p].n0 = maxEntries)
                /\ pc[p] = "L113" =>
                      (Len(evictList) = maxEntries /\ frame[p].nEv = 1)

\* an Add into a full cache is about to return after its one eviction and
\* its one callback
C18_Witness ==
    /\ serialized
    /\ maxEntries > 0
    /\ \E p \in Procs :
          /\ pc[p] = "L113"
          /\ frame[p].op = "Add"
          /\ frame[p].nEv = 1
          /\ Len(frame[p].cbs) = 1

Reported(p) == {frame[p].cbs[i] : i \in 1..Len(frame[p].cbs)}

C12_PurgedBeforeCloser ==
    \A p \in Procs :
        pc[p] \in {"L129", "L130"} =>
            /\ Empty
            /\ hasOnEvicted =>
                  /\ Reported(p) = frame[p].live0
                  /\ Len(frame[p].cbs) = Cardinality(frame[p].live0)
            /\ ~hasOnEvicted => frame[p].cbs = <<>>

C12_Returning(p) == pc[p] = "L130" /\ pc'[p] = "idle"

\* C12: Close error handling. When the closer is called and while its result
\* is being returned the cache is empty and, with a callback configured,
\* onEvicted has run exactly once for every entry that was live at the call;
\* Close returns exactly what the closer returned, nil or an error, and the
\* cache is still empty when it has returned.
C12_CloseErrorHandling ==
    /\ []C12_PurgedBeforeCloser
    /\ [][\A p \in Procs :
            C12_Returning(p) =>
                /\ ret' = <<frame[p].err>>
                /\ lastOp'.op = "Close"
                /\ Empty']_vars

\* a Close of a cache with two entries is returning the closer's error
C12_Witness ==
    /\ hasOnEvicted
    /\ \E p \in Procs :
          /\ pc[p] = "L130"
          /\ frame[p].err = "error"
          /\ Cardinality(frame[p].live0) = 2
          /\ Len(frame[p].cbs) = 2

ConcBijection ==
    /\ \A i, j \in 1..Len(evictList) : i # j => evictList[i] # evictList[j]
    /\ \A i \in 1..Len(evictList) :
          /\ ListKeys[i] \in DOMAIN items
          /\ items[ListKeys[i]] = evictList[i]
    /\ \A k \in DOMAIN items : items[k] \in Range(evictList)
    /\ Cardinality(DOMAIN items) = Len(evictList)

\* C19: dependence on external serialization. With the callers serialized,
\* whenever no call is in progress every list node is the node its key maps
\* to, every mapped node is in the list and len(items) = evictList.Len().
C19_SerializedBijection == (serialized /\ Quiescent) => ConcBijection

\* without serialization two interleaved calls have returned and left a list
\* node whose key is not mapped to it, or len(items) # evictList.Len()
C19_Witness ==
    /\ ~serialized
    /\ Quiescent
    /\ calls = 2
    /\ ~ConcBijection
====
